---- MODULE Spec2Model ----
(***************************************************************************)
(* better-manager: the SQLite store (accounts, current_account,            *)
(* quota_info, proxy_config, proxy_monitor_logs), the Database connection  *)
(* mutex, the dashboard API handlers and the Google OAuth client.          *)
(***************************************************************************)
EXTENDS Integers, Sequences, FiniteSets, TLC

VARIABLES
    accounts,         \* rows of table accounts
    account_seq,      \* sqlite_sequence of accounts (AUTOINCREMENT): largest id ever given
    current_account,  \* current_account.account_id of the row id = 1
    quota_info,       \* rows of table quota_info
    foreign_keys,     \* whether the SQLite build enforces foreign keys
    proxy_config,     \* rows of table proxy_config
    logs,             \* rows of table proxy_monitor_logs
    log_seq,          \* sqlite_sequence of proxy_monitor_logs
    clock,            \* what now() returns
    ret,              \* the last database call, its argument and what it returned
    auth,             \* per caller of GoogleOAuth::refresh_token: where the call stands
    oauth_inflight,   \* the POSTs the OAuth token endpoint has received and not answered
    task,             \* per server task: the HTTP request it handles
    response,         \* the HTTP response the server sent last
    conn_lock,        \* Database.conn, the Mutex<Connection>: the task holding it, or Free
    received          \* the numbers of HTTP requests the server has accepted, per kind

acctVars == <<accounts, account_seq, current_account, quota_info>>
logVars == <<logs, log_seq>>
authVars == <<auth, oauth_inflight>>
apiVars == <<task, response, conn_lock, received>>
procVars == <<authVars, apiVars>>
vars == <<accounts, account_seq, current_account, quota_info, foreign_keys,
          proxy_config, logs, log_seq, clock, auth, oauth_inflight,
          task, conn_lock, received, response, ret>>

-----------------------------------------------------------------------------
(* Bounds *)

MaxAccountId == 2
MaxSortOrder == 1
MaxClock == 1
MaxLogId == 2
MaxRequests == 2

-----------------------------------------------------------------------------
(* Values *)

\* SQL NULL / Rust None, for integer columns and for text columns
NULL == -1
NULLSTR == "<null>"

Emails == {"a@x", "b@x"}
AccessTokens == {"at1"}
RefreshTokens == {"rt1"}

\* models.rs Account, as a caller passes it to save_account
AccountArgs ==
    [id : 0..MaxAccountId, email : Emails, display_name : {NULLSTR},
     photo_url : {NULLSTR}, access_token : AccessTokens, refresh_token : RefreshTokens,
     expires_at : {0}, is_active : BOOLEAN, sort_order : 0..MaxSortOrder,
     created_at : {0}, updated_at : {0}]

\* `x as i32` of a bool, and the decoding `row.get::<_, i32>(7)? != 0`
BoolToInt(b) == IF b THEN 1 ELSE 0
IntToBool(i) == i # 0

\* is_active = 1 in place of NOT is_active
SqlNot_One(i) == 1

\* SQLite's NOT on an integer
SqlNot(i) == IF i = 0 THEN 1 ELSE 0

\* a call: its name, its argument, whether it returned Ok, and the value
Ret(op, arg, r) == [op |-> op, arg |-> arg, ok |-> r.ok, val |-> r.val]
Ok(v) == [ok |-> TRUE, val |-> v]
Err == [ok |-> FALSE, val |-> "rusqlite::Error"]

\* a stored row decoded into models.rs Account
ToAccount(row) == [row EXCEPT !.is_active = IntToBool(row.is_active)]

-----------------------------------------------------------------------------
(* Table accounts *)

RowsById(rows, id) == {r \in rows : r.id = id}

\* the accounts table declared without UNIQUE on email
EmailClash_NoUnique(rows, email, id) == FALSE

\* email TEXT UNIQUE NOT NULL: would a row `id` holding `email` clash with another row
EmailClash(rows, email, id) == \E r \in rows : r.email = email /\ r.id # id

\* SELECT COALESCE(MAX(sort_order), -1) FROM accounts
MaxOrder(rows) ==
    IF rows = {} THEN -1
    ELSE CHOOSE m \in {r.sort_order : r \in rows} : \A r \in rows : r.sort_order <= m

\* the sequences a SELECT ... ORDER BY sort_order ASC over `rows` may return:
\* every arrangement of the rows in non-decreasing sort_order (ties in any order)
OrderBySortOrder(rows) ==
    {s \in [1..Cardinality(rows) -> rows] :
        /\ \A i, j \in 1..Cardinality(rows) : i # j => s[i] # s[j]
        /\ \A i, j \in 1..Cardinality(rows) : i < j => s[i].sort_order <= s[j].sort_order}

\* get_active_accounts with the WHERE clause left out, as in get_all_accounts
WhereActive_NoFilter(rows) == rows

\* WHERE is_active = 1
WhereActive(rows) == {r \in rows : r.is_active = 1}

DecodeAll(s) == [i \in DOMAIN s |-> ToAccount(s[i])]


\* i32::MAX
I32_MAX == 2147483647

\* `max_order + 1` on i32 where the build does not check overflow: wraps around
WrappingInc(x) == IF x = I32_MAX THEN -I32_MAX - 1 ELSE x + 1

\* the call panicked (`max_order + 1` where the build checks overflow)
Panic == [ok |-> FALSE, val |-> "panic: attempt to add with overflow"]

\* id INTEGER PRIMARY KEY without AUTOINCREMENT: one more than the largest stored id
NextRowId_NoAutoincrement(rows, seq) ==
    IF rows = {} THEN 1
    ELSE (CHOOSE m \in {r.id : r \in rows} : \A r \in rows : r.id <= m) + 1

\* id INTEGER PRIMARY KEY AUTOINCREMENT: one more than the largest id ever given
NextRowId(rows, seq) == seq + 1

\* the INSERT of save_account, with the sort_order computed for it
InsertRow(a, sort_order) ==
    IF EmailClash(accounts, a.email, 0)
    THEN /\ ret' = Ret("save_account", a, Err)
         /\ UNCHANGED <<accounts, account_seq>>
    ELSE /\ accounts' = accounts \cup
                {[id |-> NextRowId(accounts, account_seq), email |-> a.email,
                  display_name |-> a.display_name, photo_url |-> a.photo_url,
                  access_token |-> a.access_token, refresh_token |-> a.refresh_token,
                  expires_at |-> a.expires_at, is_active |-> BoolToInt(a.is_active),
                  sort_order |-> sort_order,
                  created_at |-> clock, updated_at |-> clock]}
         /\ account_seq' = account_seq + 1
         /\ ret' = Ret("save_account", a, Ok(NextRowId(accounts, account_seq)))

\* accounts.rs save_account, the branch account.id == 0: INSERT with a fresh id;
\* max_order is an i32, and `max_order + 1` at i32::MAX panics before the INSERT
\* in a build with overflow checks and wraps in a build without
InsertAccount(a) ==
    \/ /\ MaxOrder(accounts) = I32_MAX
       /\ ret' = Ret("save_account", a, Panic)
       /\ UNCHANGED <<accounts, account_seq>>
    \/ InsertRow(a, WrappingInc(MaxOrder(accounts)))

\* the SET list with created_at = ? added to it
UpdatedRow_Created(r, a, now) ==
    [id |-> r.id, email |-> a.email, display_name |-> a.display_name,
     photo_url |-> a.photo_url, access_token |-> a.access_token,
     refresh_token |-> a.refresh_token, expires_at |-> a.expires_at,
     is_active |-> BoolToInt(a.is_active), sort_order |-> a.sort_order,
     created_at |-> now, updated_at |-> now]

\* UPDATE accounts SET email = ?, ..., sort_order = ?, updated_at = ?
UpdatedRow(r, a, now) ==
    [r EXCEPT !.email = a.email, !.display_name = a.display_name,
              !.photo_url = a.photo_url,
              !.access_token = a.access_token,
              !.refresh_token = a.refresh_token,
              !.expires_at = a.expires_at,
              !.is_active = BoolToInt(a.is_active),
              !.sort_order = a.sort_order,
              !.updated_at = now]

\* accounts.rs save_account, the branch account.id != 0: UPDATE ... WHERE id = ?
UpdateAccount(a) ==
    IF RowsById(accounts, a.id) # {} /\ EmailClash(accounts, a.email, a.id)
    THEN /\ ret' = Ret("save_account", a, Err)
         /\ UNCHANGED <<accounts, account_seq>>
    ELSE /\ accounts' = {IF r.id = a.id THEN UpdatedRow(r, a, clock) ELSE r : r \in accounts}
         /\ ret' = Ret("save_account", a, Ok(a.id))
         /\ UNCHANGED account_seq

\* accounts.rs save_account
save_account(a) ==
    /\ IF a.id = 0 THEN InsertAccount(a) ELSE UpdateAccount(a)
    /\ UNCHANGED <<current_account, quota_info>>

\* accounts.rs delete_account; the references of current_account and quota_info
\* (ON DELETE SET NULL, ON DELETE CASCADE) act only when foreign keys are enforced
delete_account(id) ==
    /\ accounts' = accounts \ RowsById(accounts, id)
    /\ current_account' =
            IF foreign_keys /\ current_account = id /\ RowsById(accounts, id) # {}
            THEN NULL ELSE current_account
    /\ quota_info' =
            IF foreign_keys /\ RowsById(accounts, id) # {}
            THEN {q \in quota_info : q.account_id # id} ELSE quota_info
    /\ ret' = Ret("delete_account", id, Ok(RowsById(accounts, id) # {}))
    /\ UNCHANGED account_seq

\* UPDATE accounts SET is_active = NOT is_active, updated_at = ? WHERE id = ?
ToggleRows(rows, id, now) ==
    {IF r.id = id
     THEN [r EXCEPT !.is_active = SqlNot(r.is_active), !.updated_at = now]
     ELSE r : r \in rows}

\* the SELECT with the missing row read as is_active = 0
ToggleResult_Default(rows, id) ==
    IF RowsById(rows, id) = {} THEN Ok(FALSE)
    ELSE Ok(IntToBool((CHOOSE r \in RowsById(rows, id) : TRUE).is_active))

\* SELECT is_active FROM accounts WHERE id = ? through query_row(..)?, which is
\* Err(QueryReturnedNoRows) when no row has the id
ToggleResult(rows, id) ==
    IF RowsById(rows, id) = {} THEN Err
    ELSE Ok(IntToBool((CHOOSE r \in RowsById(rows, id) : TRUE).is_active))

\* accounts.rs toggle_account_active: the UPDATE, then the SELECT of the row
toggle_account_active(id) ==
    /\ accounts' = ToggleRows(accounts, id, clock)
    /\ ret' = Ret("toggle_account_active", id, ToggleResult(accounts', id))
    /\ UNCHANGED <<account_seq, current_account, quota_info>>

\* accounts.rs set_current_account; account_id REFERENCES accounts(id)
set_current_account(account_id) ==
    /\ IF foreign_keys /\ account_id # NULL /\ RowsById(accounts, account_id) = {}
       THEN /\ ret' = Ret("set_current_account", account_id, Err)
            /\ UNCHANGED current_account
       ELSE /\ current_account' = account_id
            /\ ret' = Ret("set_current_account", account_id, Ok("()"))
    /\ UNCHANGED <<accounts, account_seq, quota_info>>

\* accounts.rs get_all_accounts
get_all_accounts ==
    /\ \E s \in OrderBySortOrder(accounts) :
            ret' = Ret("get_all_accounts", "()", Ok(DecodeAll(s)))
    /\ UNCHANGED <<accounts, account_seq, current_account, quota_info>>

\* accounts.rs get_active_accounts
get_active_accounts ==
    /\ \E s \in OrderBySortOrder(WhereActive(accounts)) :
            ret' = Ret("get_active_accounts", "()", Ok(DecodeAll(s)))
    /\ UNCHANGED <<accounts, account_seq, current_account, quota_info>>

\* Option<Account> of the row with this id: {} is None, {a} is Some(a)
FindAccount(rows, id) == {ToAccount(r) : r \in RowsById(rows, id)}

\* accounts.rs get_account_by_id
get_account_by_id(id) ==
    /\ ret' = Ret("get_account_by_id", id, Ok(FindAccount(accounts, id)))
    /\ UNCHANGED <<accounts, account_seq, current_account, quota_info>>

\* accounts.rs get_current_account
get_current_account ==
    /\ ret' = Ret("get_current_account", "()",
                  Ok(IF current_account = NULL THEN {}
                     ELSE FindAccount(accounts, current_account)))
    /\ UNCHANGED <<accounts, account_seq, current_account, quota_info>>

-----------------------------------------------------------------------------
(* Table proxy_config *)

SchedulingModes == {"cache-first", "balanced", "performance"}

\* what a client may send as scheduling_mode: any JSON string
ModeStrings == SchedulingModes \cup {"round-robin"}

ModelLists == {<<>>, <<"m1">>, <<"m2", "m1">>}
ApiKeys == {NULLSTR, "key"}
Ports == {8094}

\* models.rs ProxyConfig, as a caller passes it to save_proxy_config
ProxyConfigArgs ==
    [id : 0..2, enabled : BOOLEAN, host : {"127.0.0.1"}, port : Ports,
     scheduling_mode : ModeStrings, session_stickiness : BOOLEAN,
     allowed_models : ModelLists, api_key : ApiKeys,
     created_at : {0}, updated_at : {0}]

\* models.rs ProxyConfig::default
DefaultProxyConfig ==
    [id |-> 1, enabled |-> FALSE, host |-> "127.0.0.1", port |-> 8094,
     scheduling_mode |-> "cache-first", session_stickiness |-> TRUE,
     allowed_models |-> <<>>, api_key |-> NULLSTR, created_at |-> 0, updated_at |-> 0]

\* JSON text as its sequence of tokens: [ ] , and string literals
Tok(t, v) == [t |-> t, v |-> v]

\* serde_json::to_string(&Vec<String>)
ToJson(models) ==
    <<Tok("[", "")>>
    \o [i \in 1..(IF Len(models) = 0 THEN 0 ELSE 2 * Len(models) - 1) |->
            IF i % 2 = 1 THEN Tok("str", models[(i + 1) \div 2]) ELSE Tok(",", "")]
    \o <<Tok("]", "")>>

\* is the token sequence a JSON array of strings
IsJsonStringArray(text) ==
    /\ Len(text) >= 2
    /\ text[1].t = "["
    /\ text[Len(text)].t = "]"
    /\ (Len(text) > 2 => Len(text) % 2 = 1)
    /\ \A i \in 2..(Len(text) - 1) : text[i].t = (IF i % 2 = 0 THEN "str" ELSE ",")

\* the stored text never parsed: always the default, the empty Vec
FromJson_Empty(text) == <<>>

\* serde_json::from_str::<Vec<String>>(..).unwrap_or_default()
FromJson(text) ==
    IF IsJsonStringArray(text)
    THEN [i \in 1..((Len(text) - 1) \div 2) |-> text[2 * i].v]
    ELSE <<>>

\* `i32 as u16`
AsU16(i) == i % 65536

\* a stored row decoded into models.rs ProxyConfig
ToProxyConfig(row) ==
    [id |-> row.id, enabled |-> IntToBool(row.enabled), host |-> row.host,
     port |-> AsU16(row.port), scheduling_mode |-> row.scheduling_mode,
     session_stickiness |-> IntToBool(row.session_stickiness),
     allowed_models |-> FromJson(row.allowed_models), api_key |-> row.api_key,
     created_at |-> row.created_at, updated_at |-> row.updated_at]

\* save_proxy_config binding config.id as the row's id
SavedConfigId_FromArg(config) == config.id

\* the id save_proxy_config gives the row: the literal of VALUES (1, ...)
SavedConfigId(config) == 1

\* id INTEGER PRIMARY KEY CHECK (id = 1)
CheckConfigId(id) == id = 1

\* config.rs save_proxy_config: INSERT ... ON CONFLICT(id) DO UPDATE SET ...
UpsertProxyConfig(config) ==
    IF ~CheckConfigId(SavedConfigId(config))
    THEN proxy_config
    ELSE IF \E r \in proxy_config : r.id = SavedConfigId(config)
    THEN {IF r.id = SavedConfigId(config)
          THEN [r EXCEPT !.enabled = BoolToInt(config.enabled), !.host = config.host,
                         !.port = config.port,
                         !.scheduling_mode = config.scheduling_mode,
                         !.session_stickiness = BoolToInt(config.session_stickiness),
                         !.allowed_models = ToJson(config.allowed_models),
                         !.api_key = config.api_key, !.updated_at = clock]
          ELSE r : r \in proxy_config}
    ELSE proxy_config \cup
            {[id |-> SavedConfigId(config), enabled |-> BoolToInt(config.enabled),
              host |-> config.host, port |-> config.port,
              scheduling_mode |-> config.scheduling_mode,
              session_stickiness |-> BoolToInt(config.session_stickiness),
              allowed_models |-> ToJson(config.allowed_models),
              api_key |-> config.api_key, created_at |-> clock, updated_at |-> clock]}

\* config.rs save_proxy_config
save_proxy_config(config) ==
    /\ proxy_config' = UpsertProxyConfig(config)
    /\ ret' = Ret("save_proxy_config", config,
                  IF CheckConfigId(SavedConfigId(config)) THEN Ok("()") ELSE Err)

\* api/config.rs update_proxy_config: the JSON body, deserialized into ProxyConfig,
\* goes to save_proxy_config as it is; the answer is 200, or 500 on a database error
update_proxy_config(config) ==
    /\ proxy_config' = UpsertProxyConfig(config)
    /\ ret' = Ret("update_proxy_config", config,
                  Ok(IF CheckConfigId(SavedConfigId(config)) THEN 200 ELSE 500))

\* config.rs get_proxy_config: the row id = 1, or the default, saved first
get_proxy_config ==
    IF \E r \in proxy_config : r.id = 1
    THEN /\ ret' = Ret("get_proxy_config", "()",
                       Ok(ToProxyConfig(CHOOSE r \in proxy_config : r.id = 1)))
         /\ UNCHANGED proxy_config
    ELSE /\ proxy_config' = UpsertProxyConfig(DefaultProxyConfig)
         /\ ret' = Ret("get_proxy_config", "()",
                       IF CheckConfigId(SavedConfigId(DefaultProxyConfig))
                       THEN Ok(DefaultProxyConfig) ELSE Err)

-----------------------------------------------------------------------------
(* Table proxy_monitor_logs *)

LogTimes == {0, 1}

\* models.rs MonitorLog, as a caller passes it to insert_log: a served request,
\* a request no account could be selected for, a request the upstream rejected
LogArgs ==
    UNION {{[id |-> i, timestamp |-> t, method |-> "POST", path |-> "/v1/chat",
             status_code |-> 200, latency_ms |-> 12, account_email |-> "a@x",
             model |-> "m1", input_tokens |-> 3, output_tokens |-> 5,
             error_message |-> NULLSTR],
            [id |-> i, timestamp |-> t, method |-> "POST", path |-> "/v1/chat",
             status_code |-> 503, latency_ms |-> 1, account_email |-> NULLSTR,
             model |-> "m1", input_tokens |-> NULL, output_tokens |-> NULL,
             error_message |-> "no eligible account"],
            [id |-> i, timestamp |-> t, method |-> "POST", path |-> "/v1/chat",
             status_code |-> 429, latency_ms |-> 40, account_email |-> "b@x",
             model |-> NULLSTR, input_tokens |-> NULL, output_tokens |-> NULL,
             error_message |-> "upstream rejected"]}
           : i \in 0..1, t \in LogTimes}

LogLimits == {0, 1, 50}
LogOffsets == {0, 1}

\* insert_log as INSERT OR REPLACE binding log.id as the row's id
InsertLogRows_ReplaceById(log) == {r \in logs : r.id # log.id} \cup {log}

\* monitor.rs insert_log: the rows after the INSERT, which names no id, so that
\* the row gets the next AUTOINCREMENT id and log.id is not read
InsertLogRows(log) == logs \cup {[log EXCEPT !.id = log_seq + 1]}

\* monitor.rs insert_log
insert_log(log) ==
    /\ logs' = InsertLogRows(log)
    /\ log_seq' = log_seq + 1
    /\ ret' = Ret("insert_log", log, Ok(log_seq + 1))

\* the sequences a SELECT ... ORDER BY timestamp DESC over `rows` may return
OrderByTimestampDesc(rows) ==
    {s \in [1..Cardinality(rows) -> rows] :
        /\ \A i, j \in 1..Cardinality(rows) : i # j => s[i] # s[j]
        /\ \A i, j \in 1..Cardinality(rows) : i < j => s[i].timestamp >= s[j].timestamp}

\* LIMIT ? OFFSET ?
LimitOffset(s, limit, offset) ==
    SubSeq(s, offset + 1, IF offset + limit < Len(s) THEN offset + limit ELSE Len(s))

\* monitor.rs get_logs
get_logs(limit, offset) ==
    /\ \E s \in OrderByTimestampDesc(logs) :
            ret' = Ret("get_logs", <<limit, offset>>, Ok(LimitOffset(s, limit, offset)))
    /\ UNCHANGED logVars

\* monitor.rs get_log_count
get_log_count ==
    /\ ret' = Ret("get_log_count", "()", Ok(Cardinality(logs)))
    /\ UNCHANGED logVars

\* monitor.rs clear_logs
clear_logs ==
    /\ logs' = {}
    /\ ret' = Ret("clear_logs", "()", Ok(Cardinality(logs)))
    /\ UNCHANGED log_seq

\* monitor.rs clear_logs_before
clear_logs_before(before) ==
    /\ logs' = {r \in logs : ~(r.timestamp < before)}
    /\ ret' = Ret("clear_logs_before", before, Ok(Cardinality({r \in logs : r.timestamp < before})))
    /\ UNCHANGED log_seq

\* SUM over the rows of a column, NULLs skipped
RECURSIVE SumColumn(_, _)
SumColumn(rows, col) ==
    IF rows = {} THEN 0
    ELSE LET r == CHOOSE x \in rows : TRUE
         IN (IF r[col] = NULL THEN 0 ELSE r[col]) + SumColumn(rows \ {r}, col)

\* monitor.rs get_stats: LogStats
LogStats(rows) ==
    [total_requests |-> Cardinality(rows),
     success_count |-> Cardinality({r \in rows : r.status_code < 400}),
     error_count |-> Cardinality({r \in rows : r.status_code >= 400}),
     avg_latency_ms |-> IF rows = {} THEN 0
                        ELSE SumColumn(rows, "latency_ms") \div Cardinality(rows),
     total_input_tokens |-> SumColumn(rows, "input_tokens"),
     total_output_tokens |-> SumColumn(rows, "output_tokens")]

\* monitor.rs get_stats
get_stats ==
    /\ ret' = Ret("get_stats", "()", Ok(LogStats(logs)))
    /\ UNCHANGED logVars

-----------------------------------------------------------------------------
(* auth/google.rs: GoogleOAuth::refresh_token *)

Callers == {"r1", "r2"}

\* the refresh tokens of two accounts
GrantTokens == {"rt1", "rt2"}

\* what the token endpoint may answer: an HTTP status and a body
HttpStatuses == {200, 400, 500}
TokenJson == [kind |-> "token", text |-> "{access_token,token_type,expires_in}"]
ErrorJson == [kind |-> "error", text |-> "{error:invalid_grant}"]
NotJson == [kind |-> "garbage", text |-> "<html>"]
\* a body whose read fails: text().await.unwrap_or_default() is the empty string
Unreadable == [kind |-> "unreadable", text |-> ""]
Bodies == {TokenJson, ErrorJson, NotJson, Unreadable}

\* what happened to the POST: .send() failed, or a response arrived
SendError == [event |-> "send_error", status |-> 0, body |-> NotJson]
Response(status, body) == [event |-> "response", status |-> status, body |-> body]
Outcomes == {SendError} \cup {Response(st, b) : st \in HttpStatuses, b \in Bodies}

\* reqwest StatusCode::is_success
IsSuccess(status) == status >= 200 /\ status < 300

\* response.json::<TokenResponse>(): the body holds the fields of TokenResponse
ParsesAsTokenResponse(body) == body.kind = "token"

AuthOk(v) == [ok |-> TRUE, kind |-> "TokenResponse", msg |-> v]
AuthErr(kind, msg) == [ok |-> FALSE, kind |-> kind, msg |-> msg]

\* the non-success status reported with the error kind of exchange_code
RefreshStatusError_Exchange(text) == AuthErr("TokenExchangeFailed", text)

\* the error kind of a non-success status in refresh_token
RefreshStatusError(text) == AuthErr("TokenRefreshFailed", text)

\* google.rs refresh_token: the Result, given what happened to the POST
RefreshResult(outcome) ==
    IF outcome.event = "send_error"
    THEN AuthErr("RequestFailed", "reqwest::Error")
    ELSE IF ~IsSuccess(outcome.status)
    THEN RefreshStatusError(outcome.body.text)
    ELSE IF ParsesAsTokenResponse(outcome.body)
    THEN AuthOk(outcome.body.text)
    ELSE AuthErr("ParseFailed", "reqwest::Error")

NoCall == [pc |-> "idle", refresh_token |-> "", outcome |-> SendError,
           result |-> AuthErr("", "")]

\* refresh_token up to .send().await: a new Client, and the POST is on the wire
RefreshSend(c, rt) ==
    /\ auth[c].pc = "idle"
    /\ auth' = [auth EXCEPT ![c] = [NoCall EXCEPT !.pc = "awaiting", !.refresh_token = rt]]
    /\ oauth_inflight' = oauth_inflight \cup {[caller |-> c, refresh_token |-> rt]}

\* refresh_token from the end of .send().await to its return
RefreshReturn(c, outcome) ==
    /\ auth[c].pc = "awaiting"
    /\ auth' = [auth EXCEPT ![c] = [@ EXCEPT !.pc = "returned", !.outcome = outcome,
                                              !.result = RefreshResult(outcome)]]
    /\ oauth_inflight' = {q \in oauth_inflight : q.caller # c}

\* the token endpoint (or the network) accepts the POST and never answers: the
\* Client built by reqwest::Client::new() has no timeout, so .send().await stays
\* pending and the call has no further step
RefreshHang(c) ==
    /\ auth[c].pc = "awaiting"
    /\ auth' = [auth EXCEPT ![c].pc = "hung"]
    /\ UNCHANGED oauth_inflight

\* the caller drops the Result and may call again
RefreshDone(c) ==
    /\ auth[c].pc = "returned"
    /\ auth' = [auth EXCEPT ![c] = NoCall]
    /\ UNCHANGED oauth_inflight

-----------------------------------------------------------------------------
(* The HTTP server: main.rs, api/routes.rs and the handlers of api/ *)

Tasks == {"t1", "t2"}
Free == "free"

\* an HTTP request: method, path (the route's pattern) and the {id} of the path
Req(method, path, id) == [method |-> method, path |-> path, id |-> id]

Requests ==
    {Req("GET", "/health", 0), Req("GET", "/api/health", 0),
     Req("GET", "/api/accounts", 0), Req("GET", "/api/accounts/current", 0),
     Req("GET", "/api/config/proxy", 0), Req("PUT", "/api/config/proxy", 0),
     Req("GET", "/api/monitor/logs", 0), Req("DELETE", "/api/monitor/logs", 0),
     Req("GET", "/api/monitor/stats", 0),
     Req("POST", "/v1/chat/completions", 0), Req("POST", "/api/accounts", 0)}
    \cup UNION {{Req("GET", "/api/accounts/{id}", id), Req("DELETE", "/api/accounts/{id}", id),
                 Req("PUT", "/api/accounts/{id}/toggle", id),
                 Req("POST", "/api/accounts/{id}/current", id)} : id \in 1..MaxAccountId}

\* main.rs main, routes.rs api_router, and the *_routes of api/: the handler of a
\* request; a path no route matches gets 404 and a known path with another
\* method gets 405, both from axum
Route(req) ==
    CASE req.path = "/health" /\ req.method = "GET" -> "health_check"
      [] req.path = "/api/health" /\ req.method = "GET" -> "health"
      [] req.path = "/api/accounts" /\ req.method = "GET" -> "list_accounts"
      [] req.path = "/api/accounts/current" /\ req.method = "GET" -> "get_current"
      [] req.path = "/api/accounts/{id}" /\ req.method = "GET" -> "get_account"
      [] req.path = "/api/accounts/{id}" /\ req.method = "DELETE" -> "delete_account"
      [] req.path = "/api/accounts/{id}/toggle" /\ req.method = "PUT" -> "toggle_account"
      [] req.path = "/api/accounts/{id}/current" /\ req.method = "POST" -> "set_current"
      [] req.path = "/api/config/proxy" /\ req.method = "GET" -> "get_proxy_config"
      [] req.path = "/api/config/proxy" /\ req.method = "PUT" -> "update_proxy_config"
      [] req.path = "/api/monitor/logs" /\ req.method = "GET" -> "get_logs"
      [] req.path = "/api/monitor/logs" /\ req.method = "DELETE" -> "clear_logs"
      [] req.path = "/api/monitor/stats" /\ req.method = "GET" -> "get_stats"
      [] req.path \in {"/health", "/api/health", "/api/accounts", "/api/accounts/current",
                       "/api/accounts/{id}", "/api/accounts/{id}/toggle",
                       "/api/accounts/{id}/current", "/api/config/proxy",
                       "/api/monitor/logs", "/api/monitor/stats"} -> "method_not_allowed"
      [] OTHER -> "not_found"

\* the handlers that answer without the database
NoDbStatus(handler) ==
    CASE handler = "not_found" -> 404
      [] handler = "method_not_allowed" -> 405
      [] OTHER -> 200

NoBody == <<>>

\* the kind of a request: addressed to the management API (and health), or a
\* client's request for the proxy to forward
RequestKind(req) ==
    IF req.path = "/v1/chat/completions" THEN "proxy" ELSE "api"

IdleTask == [pc |-> "idle", handler |-> "", id |-> 0, step |-> 0, rows |-> NoBody]

\* a response: the task that sent it, the handler, the {id} of the request, the
\* status code and the JSON body
Sent(t, handler, id, status, body) ==
    [task |-> t, handler |-> handler, id |-> id, status |-> status, body |-> body]

NoResponse == Sent("", "", 0, 0, NoBody)

\* AccountResponse with the tokens of the account as further fields
ToResponse_WithTokens(a) ==
    [id |-> a.id, email |-> a.email, display_name |-> a.display_name,
     photo_url |-> a.photo_url, is_active |-> a.is_active,
     sort_order |-> a.sort_order, expires_at |-> a.expires_at,
     access_token |-> a.access_token, refresh_token |-> a.refresh_token]

\* api/accounts.rs AccountResponse::from
ToResponse(a) ==
    [id |-> a.id, email |-> a.email, display_name |-> a.display_name,
     photo_url |-> a.photo_url, is_active |-> a.is_active,
     sort_order |-> a.sort_order, expires_at |-> a.expires_at]

\* the server accepts a request on a task: routed, and either answered at once
\* or about to call Database::with_conn
Receive(t, req) ==
    /\ task[t].pc = "idle"
    /\ received.api + received.proxy < MaxRequests
    /\ received' = [received EXCEPT ![RequestKind(req)] = @ + 1]
    /\ IF Route(req) \in {"health_check", "health", "not_found", "method_not_allowed"}
       THEN /\ response' = Sent(t, Route(req), req.id, NoDbStatus(Route(req)), NoBody)
            /\ UNCHANGED task
       ELSE /\ task' = [task EXCEPT ![t] = [IdleTask EXCEPT !.pc = "lock", !.step = 1,
                                                  !.handler = Route(req), !.id = req.id]]
            /\ UNCHANGED response
    /\ UNCHANGED conn_lock

\* connection.rs with_conn: self.conn.lock() returns once no task holds the mutex
Acquire(t) ==
    /\ task[t].pc = "lock"
    /\ conn_lock = Free
    /\ conn_lock' = t
    /\ task' = [task EXCEPT ![t].pc = "conn"]
    /\ UNCHANGED <<received, response>>

\* the handler returns: the response, and the task is idle again
Answer(t, status, body) ==
    /\ response' = Sent(t, task[t].handler, task[t].id, status, body)
    /\ task' = [task EXCEPT ![t] = IdleTask]

\* the handler goes on to its next with_conn
Continue(t, rows) ==
    /\ task' = [task EXCEPT ![t] = [@ EXCEPT !.pc = "lock", !.step = @ + 1, !.rows = rows]]
    /\ UNCHANGED response

\* api/accounts.rs list_accounts
list_accounts(t) ==
    /\ get_all_accounts
    /\ Answer(t, 200, [i \in DOMAIN ret'.val |-> ToResponse(ret'.val[i])])

\* api/accounts.rs get_account
get_account(t) ==
    /\ get_account_by_id(task[t].id)
    /\ IF ret'.val = {} THEN Answer(t, 404, NoBody)
       ELSE Answer(t, 200, {ToResponse(a) : a \in ret'.val})

\* api/accounts.rs get_current
get_current(t) ==
    /\ get_current_account
    /\ Answer(t, 200, {ToResponse(a) : a \in ret'.val})

\* api/accounts.rs delete_account
delete_account_handler(t) ==
    /\ delete_account(task[t].id)
    /\ Answer(t, IF ret'.val THEN 204 ELSE 404, NoBody)

\* api/accounts.rs toggle_account
toggle_account(t) ==
    /\ toggle_account_active(task[t].id)
    /\ IF ret'.ok THEN Answer(t, 200, [is_active |-> ret'.val])
       ELSE Answer(t, 500, NoBody)

\* api/accounts.rs set_current: with_conn(get_account_by_id), then
\* with_conn(set_current_account)
set_current(t) ==
    IF task[t].step = 1
    THEN /\ get_account_by_id(task[t].id)
         /\ IF ret'.val = {} THEN Answer(t, 404, NoBody) ELSE Continue(t, NoBody)
    ELSE /\ set_current_account(task[t].id)
         /\ Answer(t, IF ret'.ok THEN 200 ELSE 500, NoBody)

\* the with_conn calls of the account handlers
AccountHandlerCall(t) ==
    /\ CASE task[t].handler = "list_accounts" -> list_accounts(t)
         [] task[t].handler = "get_account" -> get_account(t)
         [] task[t].handler = "get_current" -> get_current(t)
         [] task[t].handler = "delete_account" -> delete_account_handler(t)
         [] task[t].handler = "toggle_account" -> toggle_account(t)
         [] task[t].handler = "set_current" -> set_current(t)
         [] OTHER -> FALSE
    /\ UNCHANGED <<proxy_config, logVars>>

\* api/config.rs get_proxy_config and update_proxy_config (the body is body)
ConfigHandlerCall(t, body) ==
    /\ CASE task[t].handler = "get_proxy_config" ->
                get_proxy_config /\ Answer(t, IF ret'.ok THEN 200 ELSE 500, ret'.val)
         [] task[t].handler = "update_proxy_config" ->
                save_proxy_config(body) /\ Answer(t, IF ret'.ok THEN 200 ELSE 500, NoBody)
         [] OTHER -> FALSE
    /\ UNCHANGED <<acctVars, logVars>>

\* api/monitor.rs get_logs (with_conn(get_logs), then with_conn(get_log_count)),
\* clear_logs and get_stats
MonitorHandlerCall(t, limit, offset) ==
    /\ CASE task[t].handler = "get_logs" /\ task[t].step = 1 ->
                get_logs(limit, offset) /\ Continue(t, ret'.val)
         [] task[t].handler = "get_logs" /\ task[t].step = 2 ->
                get_log_count /\ Answer(t, 200, [logs |-> task[t].rows, total |-> ret'.val,
                                       limit |-> limit, offset |-> offset])
         [] task[t].handler = "clear_logs" ->
                clear_logs /\ Answer(t, 200, [deleted |-> ret'.val])
         [] task[t].handler = "get_stats" ->
                get_stats /\ Answer(t, 200, ret'.val)
         [] OTHER -> FALSE
    /\ UNCHANGED <<acctVars, proxy_config>>

\* connection.rs with_conn: f(&conn) runs while the task holds the mutex, and the
\* guard is dropped when with_conn returns
WithConn(t, call) ==
    /\ task[t].pc = "conn"
    /\ conn_lock = t
    /\ call
    /\ conn_lock' = Free
    /\ UNCHANGED <<foreign_keys, clock, received, authVars>>

-----------------------------------------------------------------------------
(* The database calls as steps: one call at a time, as under the connection mutex *)

Tick ==
    /\ clock < MaxClock
    /\ clock' = clock + 1
    /\ UNCHANGED <<acctVars, foreign_keys, proxy_config, logVars, ret, procVars>>

SaveAccount ==
    /\ \E a \in AccountArgs : (a.id = 0 => account_seq < MaxAccountId) /\ save_account(a)
    /\ UNCHANGED <<foreign_keys, proxy_config, logVars, clock, procVars>>

DeleteAccount ==
    /\ \E id \in 1..MaxAccountId : delete_account(id)
    /\ UNCHANGED <<foreign_keys, proxy_config, logVars, clock, procVars>>

ToggleAccountActive ==
    /\ \E id \in 1..MaxAccountId : toggle_account_active(id)
    /\ UNCHANGED <<foreign_keys, proxy_config, logVars, clock, procVars>>

SetCurrentAccount ==
    /\ \E id \in {NULL} \cup 1..MaxAccountId : set_current_account(id)
    /\ UNCHANGED <<foreign_keys, proxy_config, logVars, clock, procVars>>

GetAllAccounts == get_all_accounts /\ UNCHANGED <<foreign_keys, proxy_config, logVars, clock, procVars>>

GetActiveAccounts ==
    get_active_accounts /\ UNCHANGED <<foreign_keys, proxy_config, logVars, clock, procVars>>

GetAccountById ==
    /\ \E id \in 1..MaxAccountId : get_account_by_id(id)
    /\ UNCHANGED <<foreign_keys, proxy_config, logVars, clock, procVars>>

GetCurrentAccount ==
    get_current_account /\ UNCHANGED <<foreign_keys, proxy_config, logVars, clock, procVars>>

SaveProxyConfig ==
    /\ \E c \in ProxyConfigArgs : save_proxy_config(c)
    /\ UNCHANGED <<acctVars, foreign_keys, logVars, clock, procVars>>

UpdateProxyConfig ==
    /\ \E c \in ProxyConfigArgs : update_proxy_config(c)
    /\ UNCHANGED <<acctVars, foreign_keys, logVars, clock, procVars>>

GetProxyConfig == get_proxy_config /\ UNCHANGED <<acctVars, foreign_keys, logVars, clock, procVars>>

InsertLog ==
    /\ log_seq < MaxLogId
    /\ \E log \in LogArgs : insert_log(log)
    /\ UNCHANGED <<acctVars, foreign_keys, proxy_config, clock, procVars>>

GetLogs ==
    /\ \E limit \in LogLimits, offset \in LogOffsets : get_logs(limit, offset)
    /\ UNCHANGED <<acctVars, foreign_keys, proxy_config, clock, procVars>>

GetLogCount == get_log_count /\ UNCHANGED <<acctVars, foreign_keys, proxy_config, clock, procVars>>

GetStats == get_stats /\ UNCHANGED <<acctVars, foreign_keys, proxy_config, clock, procVars>>

ClearLogs == clear_logs /\ UNCHANGED <<acctVars, foreign_keys, proxy_config, clock, procVars>>

ClearLogsBefore ==
    /\ \E before \in LogTimes \cup {2} : clear_logs_before(before)
    /\ UNCHANGED <<acctVars, foreign_keys, proxy_config, clock, procVars>>

\* the store after run_migrations on a new file
Init ==
    /\ accounts = {}
    /\ account_seq = 0
    /\ current_account = NULL
    /\ quota_info = {}
    /\ foreign_keys \in BOOLEAN
    /\ proxy_config = {}
    /\ logs = {}
    /\ log_seq = 0
    /\ clock = 0
    /\ ret = Ret("run_migrations", "()", Ok("()"))
    /\ auth = [c \in Callers |-> NoCall]
    /\ oauth_inflight = {}
    /\ task = [t \in Tasks |-> IdleTask]
    /\ response = NoResponse
    /\ conn_lock = Free
    /\ received = [api |-> 0, proxy |-> 0]

\* the account store: every call of db/accounts.rs
Next ==
    \/ SaveAccount
    \/ DeleteAccount
    \/ ToggleAccountActive
    \/ SetCurrentAccount
    \/ GetAllAccounts
    \/ GetActiveAccounts
    \/ GetAccountById
    \/ GetCurrentAccount

Spec == Init /\ [][Next]_vars

\* the configuration store: the proxy_config calls of db/config.rs, as time passes
NextConfig ==
    \/ Tick
    \/ SaveProxyConfig
    \/ UpdateProxyConfig
    \/ GetProxyConfig

SpecConfig == Init /\ [][NextConfig]_vars

dbVars == <<accounts, account_seq, current_account, quota_info, foreign_keys,
           proxy_config, logs, log_seq, clock, ret>>

RefreshTokenSend ==
    /\ \E c \in Callers, rt \in GrantTokens : RefreshSend(c, rt)
    /\ UNCHANGED <<dbVars, apiVars>>

RefreshTokenReturn ==
    /\ \E c \in Callers, o \in Outcomes : RefreshReturn(c, o)
    /\ UNCHANGED <<dbVars, apiVars>>

RefreshTokenHang ==
    /\ \E c \in Callers : RefreshHang(c)
    /\ UNCHANGED <<dbVars, apiVars>>

RefreshTokenDone ==
    /\ \E c \in Callers : RefreshDone(c)
    /\ UNCHANGED <<dbVars, apiVars>>

\* the OAuth client: concurrent callers of GoogleOAuth::refresh_token
NextAuth ==
    \/ RefreshTokenSend
    \/ RefreshTokenReturn
    \/ RefreshTokenHang
    \/ RefreshTokenDone

SpecAuth == Init /\ [][NextAuth]_vars

\* the same, where an answer of the endpoint is eventually received and the
\* call that received it is run to its return
SpecAuthFair == SpecAuth /\ WF_vars(RefreshTokenReturn)

\* a configuration a client saves
OtherConfigArgs == {[DefaultProxyConfig EXCEPT !.enabled = TRUE]}

\* the default limit of PaginationParams
DefaultLimit == 50

\* an account arrives in the store (save_account has no route: the store's
\* other users call it, under the same mutex)
ApiAccountArgs == {a \in AccountArgs : a.id = 0 /\ a.sort_order = 0 /\ a.is_active}

ApiSaveAccount ==
    /\ conn_lock = Free
    /\ \E a \in ApiAccountArgs : account_seq < MaxAccountId /\ save_account(a)
    /\ UNCHANGED <<foreign_keys, proxy_config, logVars, clock, procVars>>

ApiReceive ==
    /\ \E t \in Tasks, req \in Requests : Receive(t, req)
    /\ UNCHANGED <<dbVars, authVars>>

ApiAcquire ==
    /\ \E t \in Tasks : Acquire(t)
    /\ UNCHANGED <<dbVars, authVars>>

ApiAccountCall == \E t \in Tasks : WithConn(t, AccountHandlerCall(t))

ApiConfigCall == \E t \in Tasks, c \in OtherConfigArgs : WithConn(t, ConfigHandlerCall(t, c))

ApiMonitorCall == \E t \in Tasks : WithConn(t, MonitorHandlerCall(t, DefaultLimit, 0))

\* the server: requests handled on concurrent tasks that share the Database
NextApi ==
    \/ ApiSaveAccount
    \/ ApiReceive
    \/ ApiAcquire
    \/ ApiAccountCall
    \/ ApiConfigCall
    \/ ApiMonitorCall

SpecApi == Init /\ [][NextApi]_vars

\* the sort_order values a caller passes: any i32
SortOrders == {-2, 0, I32_MAX}

OrderAccountArgs ==
    {[a EXCEPT !.sort_order = so] :
        a \in {b \in AccountArgs : b.is_active /\ b.sort_order = 0}, so \in SortOrders}

OrderSaveAccount ==
    /\ \E a \in OrderAccountArgs : (a.id = 0 => account_seq < MaxAccountId) /\ save_account(a)
    /\ UNCHANGED <<foreign_keys, proxy_config, logVars, clock, procVars>>

\* the store under inserts, updates with any sort_order, deletes and listings
NextOrder ==
    \/ OrderSaveAccount
    \/ DeleteAccount
    \/ GetAllAccounts

SpecOrder == Init /\ [][NextOrder]_vars

\* accounts saved while time passes: active ones first, inactive ones after
TimedAccountArgs == {a \in AccountArgs : a.sort_order = (IF a.is_active THEN 0 ELSE 1)}

TimedSaveAccount ==
    /\ \E a \in TimedAccountArgs : (a.id = 0 => account_seq < MaxAccountId) /\ save_account(a)
    /\ UNCHANGED <<foreign_keys, proxy_config, logVars, clock, procVars>>

\* the store under saves and deletes while time passes
NextSave ==
    \/ Tick
    \/ TimedSaveAccount
    \/ DeleteAccount

SpecSave == Init /\ [][NextSave]_vars

\* the ports a client may configure: the default and the largest u16
RoundTripPorts == {8094, 65535}

\* configurations that differ in every field a client sets
RoundTripArgs ==
    {[c EXCEPT !.port = p] :
        c \in {d \in ProxyConfigArgs : /\ d.id = 0
                                       /\ d.scheduling_mode \in {"cache-first", "balanced"}
                                       /\ d.session_stickiness = ~d.enabled},
        p \in RoundTripPorts}

RoundTripSave ==
    /\ \E c \in RoundTripArgs : save_proxy_config(c)
    /\ UNCHANGED <<acctVars, foreign_keys, logVars, clock, procVars>>

\* the configuration saved and read back while time passes
NextRoundTrip ==
    \/ Tick
    \/ RoundTripSave
    \/ GetProxyConfig

SpecRoundTrip == Init /\ [][NextRoundTrip]_vars

\* the access_token and refresh_token an account may hold
TokenPairs == {<<"at1", "rt1">>, <<"at2", "rt2">>}

\* accounts that differ in their tokens only
TokenAccountArgs ==
    {[a EXCEPT !.access_token = p[1], !.refresh_token = p[2]] :
        a \in ApiAccountArgs, p \in TokenPairs}

\* the requests of the account routes that read accounts, and set_current
ReadRequests ==
    {req \in Requests : Route(req) \in {"list_accounts", "get_account", "get_current",
                                        "set_current"}}

TokenSaveAccount ==
    /\ conn_lock = Free
    /\ \E a \in TokenAccountArgs : account_seq < MaxAccountId /\ save_account(a)
    /\ UNCHANGED <<foreign_keys, proxy_config, logVars, clock, procVars>>

ReadReceive ==
    /\ \E t \in Tasks, req \in ReadRequests : Receive(t, req)
    /\ UNCHANGED <<dbVars, authVars>>

\* the account routes serving a store whose accounts hold any tokens
NextTokens ==
    \/ TokenSaveAccount
    \/ ReadReceive
    \/ ApiAcquire
    \/ ApiAccountCall

SpecTokens == Init /\ [][NextTokens]_vars

\* the calls the other tables get while the log is in use: one account is
\* saved, toggled, made current and deleted, and one configuration is saved
OtherAccountArgs ==
    {a \in AccountArgs : a.id \in {0, 1} /\ a.email = "a@x" /\ a.sort_order = 0 /\ a.is_active}

OtherSaveAccount ==
    /\ \E a \in OtherAccountArgs : (a.id = 0 => account_seq = 0) /\ save_account(a)
    /\ UNCHANGED <<foreign_keys, proxy_config, logVars, clock, procVars>>

OtherDeleteAccount ==
    /\ delete_account(1)
    /\ UNCHANGED <<foreign_keys, proxy_config, logVars, clock, procVars>>

OtherToggleAccountActive ==
    /\ toggle_account_active(1)
    /\ UNCHANGED <<foreign_keys, proxy_config, logVars, clock, procVars>>

OtherSetCurrentAccount ==
    /\ \E id \in {NULL, 1} : set_current_account(id)
    /\ UNCHANGED <<foreign_keys, proxy_config, logVars, clock, procVars>>

OtherSaveProxyConfig ==
    /\ \E c \in OtherConfigArgs : save_proxy_config(c)
    /\ UNCHANGED <<acctVars, foreign_keys, logVars, clock, procVars>>

\* the request log: every call of db/monitor.rs, among calls on the other tables
NextMonitor ==
    \/ InsertLog
    \/ GetLogs
    \/ GetLogCount
    \/ GetStats
    \/ ClearLogs
    \/ ClearLogsBefore
    \/ OtherSaveAccount
    \/ OtherDeleteAccount
    \/ OtherToggleAccountActive
    \/ OtherSetCurrentAccount
    \/ OtherSaveProxyConfig
    \/ GetProxyConfig

SpecMonitor == Init /\ [][NextMonitor]_vars

-----------------------------------------------------------------------------
(* Claims *)

SeqRange(s) == {s[i] : i \in DOMAIN s}

\* C1: what get_active_accounts returns is exactly the stored accounts whose
\* is_active is true, each once, in ascending sort_order; no account whose
\* is_active is false is in it.
C1_ActiveAccountsOnly ==
    ret.op = "get_active_accounts" =>
        /\ ret.ok
        /\ SeqRange(ret.val) = {ToAccount(r) : r \in {x \in accounts : IntToBool(x.is_active)}}
        /\ Len(ret.val) = Cardinality(SeqRange(ret.val))
        /\ \A i, j \in DOMAIN ret.val : i < j => ret.val[i].sort_order <= ret.val[j].sort_order
        /\ \A i \in DOMAIN ret.val : ret.val[i].is_active = TRUE

\* C1: get_active_accounts has answered while an inactive account is stored
\* beside the active ones it returned
C1_Witness ==
    /\ ret.op = "get_active_accounts"
    /\ \E r \in accounts : r.is_active = 0
    /\ Len(ret.val) >= 1

\* C10 (state part): no two stored accounts have the same email
EmailsUnique == \A r1, r2 \in accounts : r1.email = r2.email => r1 = r2

\* C10 (step part): a save_account whose email another stored account holds
\* (an insert, or an update of a stored account) returns an error, and a
\* save_account that returns an error leaves the accounts table unchanged
DuplicateSaveRejected ==
    ret'.op = "save_account" =>
        LET a == ret'.arg
        IN /\ (/\ \E r \in accounts : r.email = a.email /\ r.id # a.id
               /\ (a.id = 0 \/ \E r \in accounts : r.id = a.id))
              => ~ret'.ok
           /\ ~ret'.ok => accounts' = accounts

\* C10: account emails are unique in every reachable state, and a save_account
\* that would create a duplicate email returns an error and leaves the
\* accounts table unchanged.
C10_EmailsUnique == []EmailsUnique /\ [][DuplicateSaveRejected]_vars

\* C10: a save_account was refused while two accounts are stored
C10_Witness ==
    /\ ret.op = "save_account"
    /\ ~ret.ok
    /\ Cardinality(accounts) >= 2

\* C6 (step part): every stored log record is still stored with every field
\* unchanged after a step, unless the step is clear_logs or clear_logs_before,
\* and no two records share an id
LogRecordsKept ==
    /\ \A r \in logs : r \in logs' \/ ret'.op \in {"clear_logs", "clear_logs_before"}
    /\ \A r \in logs : (\E r2 \in logs' : r2.id = r.id) => r \in logs'
    /\ \A r1, r2 \in logs' : r1.id = r2.id => r1 = r2

\* C6: a MonitorLog record is never mutated: every operation leaves every
\* stored record's fields unchanged, and a record disappears only through
\* clear_logs or clear_logs_before.
C6_LogsNeverMutated == [][LogRecordsKept]_vars

\* C6: insert_log has stored a record beside an earlier one, while an account
\* is stored
C6_Witness ==
    /\ ret.op = "insert_log"
    /\ Cardinality(logs) >= 2
    /\ accounts # {}

\* C8: after any get_proxy_config and save_proxy_config calls, whatever id the
\* argument carries, the proxy_config table holds at most one row, that row
\* has id = 1, and the call has succeeded and left exactly that row.
C8_ProxyConfigSingleton ==
    /\ Cardinality(proxy_config) <= 1
    /\ \A r \in proxy_config : r.id = 1
    /\ ret.op \in {"save_proxy_config", "get_proxy_config"} =>
            ret.ok /\ Cardinality(proxy_config) = 1

\* C8: save_proxy_config has updated the row that an earlier call inserted
C8_Witness ==
    /\ ret.op = "save_proxy_config"
    /\ \E r \in proxy_config : r.updated_at > r.created_at

\* C9: the stored scheduling_mode is always one of cache-first, balanced,
\* performance.
C9_SchedulingModeClosed ==
    \A r \in proxy_config : r.scheduling_mode \in SchedulingModes


\* C2 (as claimed): while callers wait for a refresh of the same refresh token,
\* exactly one exchange for that token is in flight at the token endpoint.
C2_SingleFlight ==
    \A c \in Callers :
        auth[c].pc = "awaiting"
            => Cardinality({q \in oauth_inflight :
                                q.refresh_token = auth[c].refresh_token}) = 1

\* C4 (as claimed): every refresh that failed reports the kind TokenRefreshFailed.
C4_AllFailuresTokenRefreshFailed ==
    \A c \in Callers :
        (auth[c].pc = "returned" /\ ~auth[c].result.ok)
            => auth[c].result.kind = "TokenRefreshFailed"

\* C4 (amended): a refresh whose POST could not be sent reports RequestFailed, one
\* answered with a non-success status reports TokenRefreshFailed carrying the
\* response text, one answered with a success status and a body that does not
\* parse reports ParseFailed; each failure carries a string, and a refresh fails
\* in no other case and with no other kind.
C4_RefreshErrorKinds ==
    \A c \in Callers : auth[c].pc = "returned" =>
        LET o == auth[c].outcome
            r == auth[c].result
        IN  /\ ~r.ok => /\ r.kind \in {"RequestFailed", "TokenRefreshFailed", "ParseFailed"}
                        /\ r.msg \in STRING
            /\ o.event = "send_error" => ~r.ok /\ r.kind = "RequestFailed"
            /\ (o.event = "response" /\ o.status \notin 200..299)
                    => ~r.ok /\ r.kind = "TokenRefreshFailed" /\ r.msg = o.body.text
            /\ (o.event = "response" /\ o.status \in 200..299 /\ o.body.kind # "token")
                    => ~r.ok /\ r.kind = "ParseFailed"
            /\ (o.event = "response" /\ o.status \in 200..299 /\ o.body.kind = "token")
                    => r.ok

\* C4: one caller's refresh was answered with a non-success status and another's
\* with a success status and an unparsable body
C4_Witness ==
    \E c1 \in Callers, c2 \in Callers :
        /\ auth[c1].pc = "returned" /\ auth[c2].pc = "returned"
        /\ auth[c1].outcome.event = "response" /\ auth[c1].outcome.status = 400
        /\ auth[c1].result.kind = "TokenRefreshFailed"
        /\ auth[c2].outcome.event = "response" /\ auth[c2].outcome.status = 200
        /\ ~auth[c2].result.ok

\* the handlers that operate on the account of the path's {id}
AccountHandlers == {"get_account", "delete_account", "toggle_account", "set_current"}

\* C3 (as claimed): a handler of a stored account that waits for the database
\* while a handler of a stored account is using it waits for a handler that
\* operates on the same account.
C3_PerAccountLocking ==
    \A t \in Tasks :
        (/\ task[t].pc = "lock"
         /\ task[t].handler \in AccountHandlers
         /\ RowsById(accounts, task[t].id) # {}
         /\ conn_lock \in Tasks
         /\ task[conn_lock].handler \in AccountHandlers
         /\ RowsById(accounts, task[conn_lock].id) # {})
            => task[conn_lock].id = task[t].id

\* C5 (as claimed): once every accepted request has been answered, the log has
\* received exactly one record per request addressed to the proxy.
C5_OneLogPerRequest ==
    (\A t \in Tasks : task[t].pc = "idle") => log_seq = received.proxy


\* the store with the token values of every account blanked
Redact(rows) == {[r EXCEPT !.access_token = "", !.refresh_token = ""] : r \in rows}

\* the status and body the three reading handlers answer with on a store
IsListAnswer(status, body, rows) ==
    /\ status = 200
    /\ \E s \in OrderBySortOrder(rows) :
            /\ Len(body) = Len(s)
            /\ \A i \in 1..Len(s) : body[i] = ToResponse(ToAccount(s[i]))
AccountAnswer(rows, id) ==
    IF RowsById(rows, id) = {} THEN <<404, NoBody>>
    ELSE <<200, {ToResponse(a) : a \in FindAccount(rows, id)}>>
CurrentAnswer(rows, cur) ==
    <<200, IF cur = NULL THEN {} ELSE {ToResponse(a) : a \in FindAccount(rows, cur)}>>

\* a step in which task t answers a request of this handler
Answers(t, handler) ==
    task[t].pc = "conn" /\ task[t].handler = handler /\ task'[t].pc = "idle"

TokensNotRevealed ==
    \A t \in Tasks :
        /\ Answers(t, "list_accounts")
            => IsListAnswer(response'.status, response'.body, Redact(accounts))
        /\ Answers(t, "get_account")
            => <<response'.status, response'.body>> = AccountAnswer(Redact(accounts), task[t].id)
        /\ Answers(t, "get_current")
            => <<response'.status, response'.body>>
                    = CurrentAnswer(Redact(accounts), current_account)

\* C11: what list_accounts, get_account and get_current answer is what they answer
\* on the store with every access_token and refresh_token blanked, so two stores
\* that differ only in token values get identical responses.
C11_TokensNotRevealed == [][TokensNotRevealed]_vars

\* C11: two stored accounts hold different tokens, the second is current, and
\* list_accounts has answered with both
C11_Witness ==
    /\ \E a \in accounts, b \in accounts :
            a.access_token # b.access_token /\ a.refresh_token # b.refresh_token
    /\ current_account = 2
    /\ response.handler = "list_accounts"
    /\ Len(response.body) = 2


\* C12 (as claimed): a refresh_token call that has started always eventually
\* returns, also when the endpoint never answers.
C12_RefreshReturns ==
    \A c \in Callers : (auth[c].pc \in {"awaiting", "hung"}) ~> (auth[c].pc = "returned")


\* C13 (as claimed): each stored account has exactly one quota_info row and every
\* quota_info row belongs to a stored account.
C13_QuotaOneToOne ==
    /\ \A a \in accounts : Cardinality({q \in quota_info : q.account_id = a.id}) = 1
    /\ \A q \in quota_info : RowsById(accounts, q.account_id) # {}


\* C14 (as claimed): after save_account with id = 0 has returned Ok, the new
\* account holds sort_order 0 when it is the only one, and otherwise the largest
\* sort_order of the other accounts plus one, so that it is last in
\* get_all_accounts.
C14_InsertAppends ==
    (ret.op = "save_account" /\ ret.ok /\ ret.arg.id = 0) =>
        \A new \in RowsById(accounts, ret.val) :
            LET others == accounts \ {new}
            IN  IF others = {} THEN new.sort_order = 0
                ELSE /\ new.sort_order > MaxOrder(others)
                     /\ new.sort_order - MaxOrder(others) = 1


\* is_active of every row, by id
ActiveById(rows) == {<<r.id, r.is_active>> : r \in rows}

\* C15: on every reachable store and for every stored id, the UPDATE of
\* toggle_account_active negates is_active of that account and changes is_active
\* of no other, a second one restores is_active of every account, and a toggle
\* that has returned Ok returned the is_active the account now holds.
C15_ToggleInvolution ==
    /\ \A row \in accounts :
        LET once == ToggleRows(accounts, row.id, clock)
            twice == ToggleRows(once, row.id, clock)
        IN  /\ \A r \in once :
                IF r.id = row.id
                THEN IntToBool(r.is_active) = ~IntToBool(row.is_active)
                ELSE <<r.id, r.is_active>> \in ActiveById(accounts)
            /\ Cardinality(once) = Cardinality(accounts)
            /\ ActiveById(twice) = ActiveById(accounts)
    /\ (ret.op = "toggle_account_active" /\ ret.ok) =>
            \E r \in RowsById(accounts, ret.arg) : ret.val = IntToBool(r.is_active)

\* C15: toggle_account_active has returned false for one of two stored accounts
\* while the other is active
C15_Witness ==
    /\ ret.op = "toggle_account_active" /\ ret.ok /\ ret.val = FALSE
    /\ \E r \in accounts : r.id # ret.arg /\ r.is_active = 1


ToggleMissingIsError ==
    \A t \in Tasks :
        (Answers(t, "toggle_account") /\ RowsById(accounts, task[t].id) = {}) =>
            /\ ret'.op = "toggle_account_active"
            /\ ret'.arg = task[t].id
            /\ ~ret'.ok
            /\ accounts' = accounts
            /\ response'.status = 500
            /\ response'.body = NoBody

\* C16: when the toggle_account handler runs for an id that names no stored
\* account, toggle_account_active returns an error, every stored account stays as
\* it is, and the handler answers 500 without a body.
C16_ToggleMissingIsError == [][ToggleMissingIsError]_vars

\* C16: the toggle_account handler has answered 500 for an id that is not stored
\* while another account is stored
C16_Witness ==
    /\ response.handler = "toggle_account"
    /\ response.status = 500
    /\ ret.op = "toggle_account_active"
    /\ accounts # {}
    /\ RowsById(accounts, response.id) = {}


\* a step that is save_account with a non-zero id
IsUpdateStep == ret'.op = "save_account" /\ clock' = clock /\ ret'.arg.id # 0

\* the row `new` holds the fields of the argument a, and the id and created_at of old
Replaces(new, old, a) ==
    /\ new.id = old.id /\ new.created_at = old.created_at
    /\ new.email = a.email /\ new.display_name = a.display_name
    /\ new.photo_url = a.photo_url /\ new.access_token = a.access_token
    /\ new.refresh_token = a.refresh_token /\ new.expires_at = a.expires_at
    /\ new.is_active = BoolToInt(a.is_active) /\ new.sort_order = a.sort_order

UpdateReplaces ==
    IsUpdateStep =>
        LET a == ret'.arg
        IN  /\ account_seq' = account_seq
            /\ IF RowsById(accounts, a.id) = {}
               THEN accounts' = accounts /\ ret'.ok /\ ret'.val = a.id
               ELSE \E old \in RowsById(accounts, a.id), new \in RowsById(accounts', a.id) :
                        /\ Replaces(new, old, a)
                        /\ accounts' \ {new} = accounts \ {old}

\* C17 (as claimed): save_account with a non-zero id creates no row; with no
\* account of that id the accounts are unchanged and it returns Ok(id); with one,
\* that account's fields are replaced, id and created_at kept, no other changed.
C17_UpdateReplaces == [][UpdateReplaces]_vars

UpdateReplacesUnlessClash ==
    IsUpdateStep =>
        LET a == ret'.arg
            clash == \E r \in accounts : r.id # a.id /\ r.email = a.email
        IN  /\ account_seq' = account_seq
            /\ IF RowsById(accounts, a.id) = {}
               THEN accounts' = accounts /\ ret'.ok /\ ret'.val = a.id
               ELSE IF clash
               THEN accounts' = accounts /\ ~ret'.ok
               ELSE /\ ret'.ok /\ ret'.val = a.id
                    /\ \E old \in RowsById(accounts, a.id),
                          new \in RowsById(accounts', a.id) :
                            /\ Replaces(new, old, a)
                            /\ new.updated_at = clock
                            /\ accounts' \ {new} = accounts \ {old}

\* C17 (amended): the same, except that when the account exists and the email of
\* the argument is held by another account the call returns an error and no
\* account changes; a replaced account gets the current time as updated_at.
C17_UpdateReplacesUnlessClash == [][UpdateReplacesUnlessClash]_vars

\* C17: an account created at time 0 has been replaced at time 1 while another
\* account is stored
C17_Witness ==
    /\ ret.op = "save_account" /\ ret.ok /\ ret.arg.id # 0
    /\ \E r \in RowsById(accounts, ret.arg.id) :
            r.created_at = 0 /\ r.updated_at = 1 /\ r.email = ret.arg.email
    /\ Cardinality(accounts) = 2


\* what get_current_account has returned is None or a stored account
CurrentIsStored ==
    ret.op = "get_current_account" =>
        /\ ret.ok
        /\ ret.val \subseteq {ToAccount(r) : r \in accounts}
        /\ Cardinality(ret.val) <= 1
        /\ \A a \in ret.val : a.id = current_account

\* a delete of the current account leaves nothing for get_current_account to
\* return, and a pointer to a deleted account resolves to no account later on
DeletedStaysUnresolved ==
    /\ (ret'.op = "delete_account" /\ ret'.arg = current_account)
            => (current_account' = NULL \/ RowsById(accounts', current_account') = {})
    /\ (/\ current_account # NULL
        /\ current_account <= account_seq
        /\ RowsById(accounts, current_account) = {}
        /\ current_account' = current_account)
            => RowsById(accounts', current_account) = {}

\* C18: get_current_account returns None or an account that is stored; after the
\* current account is deleted it returns None, and no later insert makes the old
\* pointer resolve to an account.
C18_CurrentIsStored == []CurrentIsStored /\ [][DeletedStaysUnresolved]_vars

\* C18: without enforced foreign keys the pointer still names the deleted
\* account 1, another account has been inserted, and get_current_account has
\* returned None
C18_Witness ==
    /\ current_account = 1
    /\ RowsById(accounts, 1) = {}
    /\ accounts # {}
    /\ ret.op = "get_current_account"
    /\ ret.val = {}


SetCurrentAtomic ==
    \A t \in Tasks :
        Answers(t, "set_current") =>
            /\ (task[t].step = 1 /\ RowsById(accounts, task[t].id) = {})
                    => (response'.status = 404 /\ current_account' = current_account)
            /\ response'.status = 200
                    => (current_account' = task[t].id /\ RowsById(accounts', task[t].id) # {})

\* C19 (as claimed): the set_current handler answers 404 and leaves the pointer
\* as it is when no account has the id, and whenever it answers 200 the pointer
\* names an account that is stored, under every interleaving with delete_account.
C19_SetCurrentAtomic == [][SetCurrentAtomic]_vars


\* two configurations agree on the fields a client sets
SameConfig(x, y) ==
    /\ x.enabled = y.enabled /\ x.host = y.host /\ x.port = y.port
    /\ x.scheduling_mode = y.scheduling_mode
    /\ x.session_stickiness = y.session_stickiness
    /\ x.allowed_models = y.allowed_models /\ x.api_key = y.api_key

\* a step that is get_proxy_config
IsGetConfigStep == ret'.op = "get_proxy_config" /\ clock' = clock

ConfigRoundTrip ==
    IsGetConfigStep =>
        /\ ret'.ok /\ ret'.val.id = 1
        /\ (ret.op = "save_proxy_config" /\ ret.ok) => SameConfig(ret'.val, ret.arg)
        /\ proxy_config = {} =>
                /\ ret'.val.enabled = FALSE /\ ret'.val.scheduling_mode = "cache-first"
                /\ ret'.val.session_stickiness = TRUE /\ ret'.val.allowed_models = <<>>
                /\ ret'.val.api_key = NULLSTR
                /\ Cardinality(proxy_config') = 1
                /\ \A r \in proxy_config' : r.id = 1 /\ SameConfig(ToProxyConfig(r), ret'.val)
        /\ (ret.op = "get_proxy_config" /\ ret.ok) =>
                proxy_config' = proxy_config /\ SameConfig(ret'.val, ret.val)

\* C20: get_proxy_config after save_proxy_config(c) returns id 1 and the fields of
\* c; on a store with no row it stores and returns the default; and right after
\* another get_proxy_config it returns the same fields and leaves the store as
\* it is.
C20_ConfigRoundTrip == [][ConfigRoundTrip]_vars

\* C20: get_proxy_config has returned a saved configuration with two allowed
\* models, the largest port and an api_key
C20_Witness ==
    /\ ret.op = "get_proxy_config" /\ ret.ok
    /\ ret.val.allowed_models = <<"m2", "m1">>
    /\ ret.val.port = 65535
    /\ ret.val.api_key = "key"
    /\ ret.val.updated_at = 1

=============================================================================
